---- MODULE Spec2Model ----
(***************************************************************************)
(* The sidebar / main-content minimum-width synchronizer of the blog theme *)
(* (themes/joelving/static/js/minWidth.js, lines 1-12): the handlers the   *)
(* script registers, the browser's event queue that runs them, and the     *)
(* function updateMinWidth they all call.                                  *)
(***************************************************************************)
EXTENDS Integers, Sequences, FiniteSets

(***************************************************************************)
(* Bounds of the model.                                                    *)
(***************************************************************************)
\* Events the browser may hold queued (dispatched in FIFO order).
MaxQueue == 2

(***************************************************************************)
(* CSS values.  A computed style value is either a length, a linear         *)
(* combination px + pct% (what calc() of lengths and percentages computes  *)
(* to), or a keyword that is no length ("auto").                           *)
(***************************************************************************)
Px(n) == [k |-> "len", px |-> n, pct |-> 0]
Pct(p) == [k |-> "len", px |-> 0, pct |-> p]
Auto == [k |-> "auto", px |-> 0, pct |-> 0]

IsLength(v) == v.k = "len"

\* Sidebar widths (px) the stylesheet's breakpoints may give the sidebar.
Widths == {64, 240}
\* Sidebar left offsets (px): shown, part-way through a slide, slid off-screen.
Lefts == {-240, -120, 0}
\* Stylesheet-declared min-width of the main element.
Intrinsics == {Px(100), Px(600), Pct(50), Auto}
\* Width (px) of main's containing block, against which percentages resolve.
Viewports == {800}
\* Element objects that may carry id="sidebar"; 0 stands for null.
SidebarIds == {1}

\* Events: window events have target 0, transitionend targets an element.
Event(t, el) == [type |-> t, target |-> el]

\* The properties whose transition on the sidebar may end: one that moves
\* the sidebar and one that leaves its width and left alone.
Props == {"left", "opacity"}

\* The propertyName an event of type t can carry when it is dispatched.
PropsOf(t) == IF t = "transitionend" THEN Props ELSE {"none"}

\* The event object the browser hands to the handlers of queued event e.
Delivered(e, p) == [type |-> e.type, target |-> e.target, prop |-> p]

VARIABLES
    sidebar,     \* the element document.getElementById("sidebar") returns, 0 if none
    main,        \* TRUE iff document.getElementById("main") returns an element
    listener,    \* the element the transitionend listener was added to, 0 if none
    intrinsic,   \* main's stylesheet min-width
    width,       \* the sidebar's computed width, px
    left,        \* the sidebar's computed left, px
    hidden,      \* TRUE iff the sidebar generates no box (display: none below a
                 \* breakpoint): its computed width is then the keyword auto
    viewport,    \* width of main's containing block, px
    mainStyle,   \* main.style.minWidth: <<>> for "", <<w1,w2,w3>> for calc(w1 - w2 - w3)
    queue,       \* events the browser has queued and not yet dispatched
    handled,     \* the event dispatched last, of type "none" before the first
    before,      \* main.style.minWidth as that event's dispatch found it
    outcome,     \* how that event's handler ended, "none" if it had no handler
    pc           \* where the running handler stands, "idle" between handlers

vars == <<sidebar, main, listener, intrinsic, width, left, hidden, viewport,
          mainStyle, queue, handled, before, outcome, pc>>

(***************************************************************************)
(* The browser's side of line 8 and line 11: computing and resolving       *)
(* min-width.                                                              *)
(***************************************************************************)
Max(a, b) == IF a >= b THEN a ELSE b

\* A length resolved to px against a containing block cb px wide; a keyword
\* that is no length contributes no minimum.
Used(v, cb) == IF IsLength(v) THEN v.px + (v.pct * cb) \div 100 ELSE 0

\* Compose with the sidebar's width and left interchanged.
ComposeSwapped(w1, w2, w3) == <<w1, w3, w2>>

\* Compose with the sidebar's left offset added instead of subtracted.
ComposeAddLeft(w1, w2, w3) ==
    <<w1, w2, [w3 EXCEPT !.px = 0 - w3.px, !.pct = 0 - w3.pct]>>

\* Compose without the sidebar's left offset.
ComposeNoLeft(w1, w2, w3) == <<w1, w2, Px(0)>>

\* Compose with each measurement parsed to a number first, a value that is
\* no length parsing to 0.
ComposeParsed(w1, w2, w3) ==
    LET num(v) == IF IsLength(v) THEN v ELSE Px(0)
    IN  <<num(w1), num(w2), num(w3)>>

\* The template literal of line 11: the three measurements, in order, as the
\* operands of calc(w1 - w2 - w3).
Compose(w1, w2, w3) == <<w1, w2, w3>>

\* calc(w1 - w2 - w3) parses as a min-width value iff every operand is a length.
ValidCalc(expr) == \A i \in 1..Len(expr) : IsLength(expr[i])

\* The value of calc(w1 - w2 - w3) as a linear combination.
CalcValue(expr) ==
    [k |-> "len",
     px |-> expr[1].px - expr[2].px - expr[3].px,
     pct |-> expr[1].pct - expr[2].pct - expr[3].pct]

\* getComputedStyle(main).getPropertyValue("min-width") for inline style st:
\* the inline declaration wins over the stylesheet when there is one.
ComputedMinWidth(st, decl) == IF st = <<>> THEN decl ELSE CalcValue(st)

\* The minimum width the rendering engine enforces on main: the computed
\* min-width resolved to px, a negative calc() result clamped to 0.
Resolve(st, decl, cb) == Max(0, Used(ComputedMinWidth(st, decl), cb))

EffectiveMinWidth == Resolve(mainStyle, intrinsic, viewport)

\* getComputedStyle(sidebar).getPropertyValue("width"), line 9.
SidebarWidth == IF hidden THEN Auto ELSE Px(width)

\* getComputedStyle(sidebar).getPropertyValue("left"), line 10.
SidebarLeft == Px(left)

(***************************************************************************)
(* updateMinWidth, lines 4-12.  The result is main's inline min-width      *)
(* after the call and how the call ended; w and l are the sidebar's        *)
(* computed width and left.                                                *)
(***************************************************************************)
\* updateMinWidth without its line 7: the earlier override stays in place
\* while main's min-width is measured.
ClearOverrideSkipped(st) == st

\* Line 7: main.style.minWidth = "".
ClearOverride(st) == <<>>

\* Line 11 with a setter that stores whatever string it is given.
SetMinWidthUnchecked(st, expr) == expr

\* Line 11: assigning a string that is no valid min-width leaves the
\* declaration as it was.
SetMinWidth(st, expr) == IF ValidCalc(expr) THEN expr ELSE st

updateMinWidth(sb, mn, st, decl, w, l) ==
    IF ~mn
    THEN \* line 7 dereferences null: TypeError, nothing written
         [style |-> st, outcome |-> "threw"]
    ELSE LET cleared == ClearOverride(st)                \* line 7
             w1 == ComputedMinWidth(cleared, decl)       \* line 8
         IN  IF sb = 0
             THEN \* line 9: getComputedStyle(null) throws TypeError
                  [style |-> cleared, outcome |-> "threw"]
             ELSE LET w2 == w                            \* line 9
                      w3 == l                            \* line 10
                      expr == Compose(w1, w2, w3)        \* line 11
                  IN  [style |-> SetMinWidth(cleared, expr),
                       outcome |-> IF ValidCalc(expr) THEN "applied"
                                                      ELSE "rejected"]

(***************************************************************************)
(* Script evaluation, lines 1-3.                                           *)
(***************************************************************************)
\* Line 3 adds the listener to the element found at that moment; with no
\* such element it throws and no listener exists.  Lines 1-2 ran before.
RegisterListener(sb) == sb

\* HasHandler for a script without its line 3.
HasHandlerLoadResize(e) == e.type \in {"load", "resize"}

\* HasHandler for a script that adds the sidebar's listener first: when that
\* throws, the assignments of onload and onresize are never reached.
HasHandlerListenerFirst(e) ==
    /\ listener # 0
    /\ \/ e.type \in {"load", "resize"}
       \/ e.type = "transitionend" /\ e.target = listener

\* Whether dispatching event e calls updateMinWidth.
HasHandler(e) ==
    \/ e.type = "load"                                   \* line 1
    \/ e.type = "resize"                                 \* line 2
    \/ e.type = "transitionend" /\ e.target = listener /\ listener # 0  \* line 3

\* The events waiting when the script has been evaluated: load, which fires
\* once the page's resources are in, and possibly before it a resize or the
\* end of a sidebar transition that happened while they were loading.
InitialQueues(sb) ==
    {<<Event("load", 0)>>, <<Event("resize", 0), Event("load", 0)>>}
      \cup (IF sb = 0 THEN {}
                      ELSE {<<Event("transitionend", sb), Event("load", 0)>>})

Init ==
    /\ sidebar \in {0} \cup SidebarIds
    /\ main \in BOOLEAN
    /\ listener = RegisterListener(sidebar)
    /\ intrinsic \in Intrinsics
    /\ width \in Widths
    /\ left \in Lefts
    /\ hidden \in BOOLEAN
    /\ viewport \in Viewports
    /\ mainStyle = <<>>
    /\ queue \in InitialQueues(sidebar)
    /\ handled = Delivered(Event("none", 0), "none")
    /\ before = <<>>
    /\ outcome = "none"
    /\ pc = "idle"

(***************************************************************************)
(* The event loop: the browser dispatches the oldest queued event.         *)
(***************************************************************************)
\* Dispatch with a handler that also assigns the sidebar's left.
DispatchWritingSidebar(t) ==
    /\ queue # <<>>
    /\ Head(queue).type = t
    /\ queue' = Tail(queue)
    /\ \E p \in PropsOf(t) : handled' = Delivered(Head(queue), p)
    /\ before' = mainStyle
    /\ IF HasHandler(Head(queue))
       THEN LET r == updateMinWidth(sidebar, main, mainStyle, intrinsic,
                                    SidebarWidth, SidebarLeft)
            IN  /\ mainStyle' = r.style
                /\ outcome' = r.outcome
                /\ left' = IF r.outcome = "applied" THEN 0 ELSE left
       ELSE /\ mainStyle' = mainStyle
            /\ outcome' = "none"
            /\ left' = left
    /\ UNCHANGED <<sidebar, main, listener, intrinsic, width, hidden,
                   viewport, pc>>

\* Dispatch with a debounced handler: two queued events of one type in a
\* row are taken together and answered by a single run.
DispatchCoalescing(t) ==
    /\ queue # <<>>
    /\ Head(queue).type = t
    /\ queue' = IF Len(queue) > 1 /\ queue[2].type = t
                THEN Tail(Tail(queue))
                ELSE Tail(queue)
    /\ \E p \in PropsOf(t) : handled' = Delivered(Head(queue), p)
    /\ before' = mainStyle
    /\ IF HasHandler(Head(queue))
       THEN LET r == updateMinWidth(sidebar, main, mainStyle, intrinsic,
                                    SidebarWidth, SidebarLeft)
            IN  /\ mainStyle' = r.style
                /\ outcome' = r.outcome
       ELSE /\ mainStyle' = mainStyle
            /\ outcome' = "none"
    /\ UNCHANGED <<sidebar, main, listener, intrinsic, width, left, hidden,
                   viewport, pc>>

\* Dispatch with a handler that measures the sidebar element found when the
\* script was evaluated instead of looking it up again.
DispatchCaptured(t) ==
    /\ queue # <<>>
    /\ Head(queue).type = t
    /\ queue' = Tail(queue)
    /\ \E p \in PropsOf(t) : handled' = Delivered(Head(queue), p)
    /\ before' = mainStyle
    /\ IF HasHandler(Head(queue))
       THEN LET r == updateMinWidth(listener, main, mainStyle, intrinsic,
                                    SidebarWidth, SidebarLeft)
            IN  /\ mainStyle' = r.style
                /\ outcome' = r.outcome
       ELSE /\ mainStyle' = mainStyle
            /\ outcome' = "none"
    /\ UNCHANGED <<sidebar, main, listener, intrinsic, width, left, hidden,
                   viewport, pc>>

\* Dispatch with a transitionend listener that returns at once unless the
\* event's propertyName is left.
DispatchFiltered(t) ==
    /\ queue # <<>>
    /\ Head(queue).type = t
    /\ queue' = Tail(queue)
    /\ \E p \in PropsOf(t) :
         /\ handled' = Delivered(Head(queue), p)
         /\ IF HasHandler(Head(queue)) /\ p \in {"none", "left"}
            THEN LET r == updateMinWidth(sidebar, main, mainStyle, intrinsic,
                                         SidebarWidth, SidebarLeft)
                 IN  /\ mainStyle' = r.style
                     /\ outcome' = r.outcome
            ELSE /\ mainStyle' = mainStyle
                 /\ outcome' = "none"
    /\ before' = mainStyle
    /\ UNCHANGED <<sidebar, main, listener, intrinsic, width, left, hidden,
                   viewport, pc>>

Dispatch(t) ==
    /\ queue # <<>>
    /\ Head(queue).type = t
    /\ queue' = Tail(queue)
    /\ \E p \in PropsOf(t) : handled' = Delivered(Head(queue), p)
    /\ before' = mainStyle
    /\ IF HasHandler(Head(queue))
       THEN LET r == updateMinWidth(sidebar, main, mainStyle, intrinsic, SidebarWidth, SidebarLeft)
            IN  /\ mainStyle' = r.style
                /\ outcome' = r.outcome
       ELSE /\ mainStyle' = mainStyle
            /\ outcome' = "none"
    /\ UNCHANGED <<sidebar, main, listener, intrinsic, width, left, hidden,
                   viewport, pc>>

DispatchLoad == Dispatch("load")
DispatchResize == Dispatch("resize")
DispatchTransitionEnd == Dispatch("transitionend")
DispatchOther == Dispatch("other")

(***************************************************************************)
(* The page around the script: the user and the rendering engine.          *)
(***************************************************************************)
Enqueue(e) == /\ Len(queue) < MaxQueue
              /\ queue' = Append(queue, e)

\* The window is resized: a breakpoint may
\* change the sidebar's width or hide the sidebar, and a resize event is
\* queued.
ResizeViewport ==
    /\ Enqueue(Event("resize", 0))
    /\ viewport' \in Viewports
    /\ width' \in Widths
    /\ hidden' \in BOOLEAN
    /\ UNCHANGED <<sidebar, main, listener, intrinsic, left,
                   mainStyle, handled, before, outcome, pc>>

\* AnimationFrame with an event fired to the sidebar's listener on each frame.
AnimationFrameNotifying ==
    /\ sidebar # 0
    /\ left' \in Lefts \ {left}
    /\ Enqueue(Event("transitionend", sidebar))
    /\ UNCHANGED <<sidebar, main, listener, intrinsic, width, hidden, viewport,
                   mainStyle, handled, before, outcome, pc>>

\* One frame of a sidebar slide: left moves, no event is fired.
AnimationFrame ==
    /\ sidebar # 0
    /\ left' \in Lefts \ {left}
    /\ UNCHANGED <<sidebar, main, listener, intrinsic, width, hidden, viewport,
                   mainStyle, queue, handled, before, outcome, pc>>

\* A transition on the sidebar element completes: transitionend is queued
\* for that element.
TransitionEnd ==
    /\ sidebar # 0
    /\ Enqueue(Event("transitionend", sidebar))
    /\ UNCHANGED <<sidebar, main, listener, intrinsic, width, left, hidden, viewport,
                   mainStyle, handled, before, outcome, pc>>

\* Any event the script registers no handler for (scroll, click, ...).
OtherEvent ==
    /\ Enqueue(Event("other", 0))
    /\ UNCHANGED <<sidebar, main, listener, intrinsic, width, left, hidden, viewport,
                   mainStyle, handled, before, outcome, pc>>

RemoveSidebar ==
    /\ sidebar # 0
    /\ sidebar' = 0
    /\ UNCHANGED <<main, listener, intrinsic, width, left, hidden, viewport,
                   mainStyle, queue, handled, before, outcome, pc>>

InsertSidebar ==
    /\ sidebar = 0
    /\ sidebar' \in SidebarIds
    /\ UNCHANGED <<main, listener, intrinsic, width, left, hidden, viewport,
                   mainStyle, queue, handled, before, outcome, pc>>

\* The main element is detached and re-attached; its inline style stays
\* with the element.
RemoveMain ==
    /\ main
    /\ main' = FALSE
    /\ UNCHANGED <<sidebar, listener, intrinsic, width, left, hidden, viewport,
                   mainStyle, queue, handled, before, outcome, pc>>

InsertMain ==
    /\ ~main
    /\ main' = TRUE
    /\ UNCHANGED <<sidebar, listener, intrinsic, width, left, hidden, viewport,
                   mainStyle, queue, handled, before, outcome, pc>>

Next ==
    \/ DispatchLoad
    \/ DispatchResize
    \/ DispatchTransitionEnd
    \/ DispatchOther
    \/ ResizeViewport
    \/ AnimationFrame
    \/ TransitionEnd
    \/ OtherEvent
    \/ RemoveSidebar
    \/ InsertSidebar
    \/ RemoveMain
    \/ InsertMain

Spec == Init /\ [][Next]_vars

(***************************************************************************)
(* The same page with updateMinWidth taken line by line: the handler is    *)
(* entered when its event is dispatched, lines 5-7 look the elements up    *)
(* and clear the override, lines 8-11 measure and apply.  The function     *)
(* body is synchronous, so the event loop dispatches the next event only   *)
(* when the handler has returned, and no other script touches the page     *)
(* meanwhile; the browser may queue events while the handler runs.         *)
(***************************************************************************)
\* A handler that yields to the event loop between its lines.
CanDispatchAnytime == TRUE

\* Lines 4-12 hold no await, timer or callback: the event loop gets control
\* back only between handlers.
CanDispatch == pc = "idle"

\* The browser dispatches the oldest queued event and enters its handler.
Begin(t) ==
    /\ CanDispatch
    /\ queue # <<>>
    /\ Head(queue).type = t
    /\ queue' = Tail(queue)
    /\ \E p \in PropsOf(t) : handled' = Delivered(Head(queue), p)
    /\ before' = mainStyle
    /\ IF HasHandler(Head(queue))
       THEN /\ pc' = "entered"
            /\ outcome' = outcome
       ELSE /\ pc' = "idle"
            /\ outcome' = "none"
    /\ UNCHANGED <<sidebar, main, listener, intrinsic, width, left, hidden,
                   viewport, mainStyle>>

BeginLoad == Begin("load")
BeginResize == Begin("resize")
BeginTransitionEnd == Begin("transitionend")
BeginOther == Begin("other")

\* Lines 5-7: with main absent line 7 throws, else the override is cleared.
LookupAndClear ==
    /\ pc = "entered"
    /\ IF ~main
       THEN /\ mainStyle' = mainStyle
            /\ outcome' = "threw"
            /\ pc' = "idle"
       ELSE /\ mainStyle' = ClearOverride(mainStyle)
            /\ outcome' = outcome
            /\ pc' = "cleared"
    /\ UNCHANGED <<sidebar, main, listener, intrinsic, width, left, hidden,
                   viewport, queue, handled, before>>

\* MeasureAndApply with a handler that starts over when the sidebar is
\* missing instead of ending.
MeasureAndApplyRetrying ==
    /\ pc = "cleared"
    /\ IF sidebar = 0
       THEN /\ mainStyle' = mainStyle
            /\ outcome' = "threw"
            /\ pc' = "entered"
       ELSE LET expr == Compose(ComputedMinWidth(mainStyle, intrinsic),
                                SidebarWidth, SidebarLeft)
            IN  /\ mainStyle' = SetMinWidth(mainStyle, expr)
                /\ outcome' = IF ValidCalc(expr) THEN "applied" ELSE "rejected"
                /\ pc' = "idle"
    /\ UNCHANGED <<sidebar, main, listener, intrinsic, width, left, hidden,
                   viewport, queue, handled, before>>

\* Lines 8-11: with the sidebar absent line 9 throws, else the three
\* measurements are composed and assigned.
MeasureAndApply ==
    /\ pc = "cleared"
    /\ IF sidebar = 0
       THEN /\ mainStyle' = mainStyle
            /\ outcome' = "threw"
            /\ pc' = "idle"
       ELSE LET expr == Compose(ComputedMinWidth(mainStyle, intrinsic),
                                SidebarWidth, SidebarLeft)
            IN  /\ mainStyle' = SetMinWidth(mainStyle, expr)
                /\ outcome' = IF ValidCalc(expr) THEN "applied" ELSE "rejected"
                /\ pc' = "idle"
    /\ UNCHANGED <<sidebar, main, listener, intrinsic, width, left, hidden,
                   viewport, queue, handled, before>>

\* What the page and the rendering engine do between handlers.
BetweenHandlers ==
    /\ pc = "idle"
    /\ \/ ResizeViewport
       \/ AnimationFrame
       \/ RemoveSidebar
       \/ InsertSidebar
       \/ RemoveMain
       \/ InsertMain

StepNext ==
    \/ BeginLoad
    \/ BeginResize
    \/ BeginTransitionEnd
    \/ BeginOther
    \/ LookupAndClear
    \/ MeasureAndApply
    \/ BetweenHandlers
    \/ TransitionEnd
    \/ OtherEvent

StepSpec == Init /\ [][StepNext]_vars

\* The declared min-width never changes and no branch of the handler reads
\* it, so the progress of a run is followed from one declaration.
FairInit == Init /\ intrinsic = Px(600)

\* A handler that has been entered is run to its end: nothing in lines 4-12
\* waits, so each of its steps is taken once it is enabled.
FairStepSpec ==
    /\ FairInit
    /\ [][StepNext]_vars
    /\ WF_vars(LookupAndClear)
    /\ WF_vars(MeasureAndApply)

(***************************************************************************)
(* Steps of the event loop, as the properties below name them.             *)
(***************************************************************************)
\* This step dispatches the oldest queued event.
Dispatching == queue # <<>> /\ queue' = Tail(queue)

\* This step dispatches an event whose handler is updateMinWidth.
Running == Dispatching /\ HasHandler(Head(queue))

\* Both elements are in the page.
BothPresent == main /\ sidebar # 0

\* Both elements are in the page and each of the three measurements is a
\* length.
Measurable == BothPresent /\ IsLength(intrinsic) /\ ~hidden

\* The last dispatched event ran updateMinWidth.
Ran == outcome # "none"

\* The horizontal space the sidebar occupies: its width plus its left
\* offset, nothing once it is slid off-screen or absent.
Occupied == IF sidebar = 0 \/ hidden THEN 0 ELSE Max(0, width + left)

\* C1: idempotence.  In every reachable page state, running updateMinWidth
\* and then running it again on the same geometry leaves the same inline
\* min-width on main after the second call as after the first, and the
\* second call ends as the first did.
C1_Idempotent ==
    LET once == updateMinWidth(sidebar, main, mainStyle, intrinsic, SidebarWidth, SidebarLeft)
        twice == updateMinWidth(sidebar, main, once.style, intrinsic, SidebarWidth, SidebarLeft)
    IN  /\ twice.style = once.style
        /\ twice.outcome = once.outcome

\* A run found on main exactly the override it then wrote, and that override
\* is the one of the present geometry: the second of two runs in succession.
C1_Witness ==
    /\ outcome = "applied"
    /\ before # <<>>
    /\ before = mainStyle
    /\ mainStyle = <<intrinsic, Px(width), Px(left)>>

\* C2: override clearing.  A run that finds on main an override computed
\* from another sidebar width W1 leaves the override a run on a page with no
\* override would leave for the present width W2: its width operand is W2
\* and its first operand is the stylesheet's min-width, not a value derived
\* from the old override.
C2_OverrideCleared ==
    [][(Running /\ Measurable /\ mainStyle # <<>> /\ mainStyle[2] # Px(width))
        => /\ mainStyle' =
                updateMinWidth(sidebar, main, <<>>, intrinsic, SidebarWidth, SidebarLeft).style
           /\ mainStyle'[1] = intrinsic
           /\ mainStyle'[2] = Px(width)
           /\ Resolve(mainStyle', intrinsic, viewport)
                = Max(0, Used(intrinsic, viewport) - width - left)]_vars

\* The last run found an override of another width and wrote the present one.
C2_Witness ==
    /\ outcome = "applied"
    /\ before # <<>>
    /\ before[2] # mainStyle[2]
    /\ mainStyle[2] = Px(width)

\* C3: a run with the sidebar element absent leaves main's inline min-width
\* as it found it.
C3_StyleKeptWithoutSidebar ==
    [][(Running /\ sidebar = 0) => mainStyle' = mainStyle]_vars

\* C4: a run with the sidebar or the main element absent ends without an
\* exception.
C4_NoThrowWhenAbsent ==
    [][(Running /\ ~BothPresent) => outcome' # "threw"]_vars

\* C5: a run with both elements present applies calc(w1 - w2 - w3) with w1
\* main's computed min-width with no override in place, w2 the sidebar's
\* computed width and w3 its computed left at the time of the call.  (When
\* a measurement is no length the browser rejects the expression: C13, C14.)
C5_AppliedExpression ==
    [][(Running /\ Measurable)
        => /\ outcome' = "applied"
           /\ mainStyle' = <<ComputedMinWidth(<<>>, intrinsic), Px(width), Px(left)>>]_vars

\* A run applied the expression of the present geometry.
C5_Witness ==
    /\ outcome = "applied"
    /\ BothPresent
    /\ mainStyle = <<intrinsic, Px(width), Px(left)>>
    /\ left # 0

\* C6: with sidebar width 240px, left 0px and intrinsic min-width 600px a run
\* leaves an override that resolves to 360px.
C6_Scenario360 ==
    [][(Running /\ Measurable /\ intrinsic = Px(600) /\ width = 240 /\ left = 0)
        => EffectiveMinWidth' = 360]_vars

C6_Witness ==
    /\ outcome = "applied"
    /\ mainStyle = <<Px(600), Px(240), Px(0)>>
    /\ EffectiveMinWidth = 360

\* C7: with the sidebar slid off-screen (left = -width) a run leaves an
\* override that resolves to the intrinsic min-width; 600px for width 240px,
\* left -240px, intrinsic 600px.
C7_CollapsedIsIntrinsic ==
    [][(Running /\ Measurable /\ left = -width)
        => /\ EffectiveMinWidth' = Used(intrinsic, viewport)
           /\ (intrinsic = Px(600) /\ width = 240 => EffectiveMinWidth' = 600)]_vars

C7_Witness ==
    /\ outcome = "applied"
    /\ mainStyle = <<Px(600), Px(240), Px(-240)>>
    /\ EffectiveMinWidth = 600

\* The resize event being dispatched finds on main the override computed
\* from the same intrinsic min-width and left but a larger sidebar width wOld.
ShrunkSince(wOld) ==
    /\ Running
    /\ Head(queue).type = "resize"
    /\ Measurable
    /\ wOld > width
    /\ mainStyle = <<intrinsic, Px(wOld), Px(left)>>

\* C8 as stated: when the sidebar's width has decreased, handling the next
\* resize event makes main's effective minimum width larger than before by
\* exactly the decrease.
C8_ExactIncrease ==
    [][\A wOld \in Widths :
         ShrunkSince(wOld)
           => EffectiveMinWidth' = EffectiveMinWidth + (wOld - width)]_vars

\* C8 amended: the effective minimum width never decreases and grows by at
\* most the decrease; it grows by exactly the decrease when the old override
\* resolved to a non-negative width (intrinsic >= old width + left), that
\* is when the browser did not clamp it to zero.
C8_IncreaseUnlessClamped ==
    [][\A wOld \in Widths :
         ShrunkSince(wOld)
           => /\ EffectiveMinWidth' >= EffectiveMinWidth
              /\ EffectiveMinWidth' - EffectiveMinWidth <= wOld - width
              /\ (Used(intrinsic, viewport) - wOld - left >= 0
                    => EffectiveMinWidth' = EffectiveMinWidth + (wOld - width))]_vars

\* A resize handler found the 240px override and left the 64px one.
C8_Witness ==
    /\ handled.type = "resize"
    /\ outcome = "applied"
    /\ before = <<Px(600), Px(240), Px(0)>>
    /\ mainStyle = <<Px(600), Px(64), Px(0)>>
    /\ EffectiveMinWidth = 536

\* C9: dispatching an event runs updateMinWidth iff the event is a page
\* load, a viewport resize or the end of a sidebar transition.
C9_TriggersRun ==
    [][Dispatching
        => ((outcome' # "none")
              <=> Head(queue).type \in {"load", "resize", "transitionend"})]_vars

\* C10 as stated: once the load event has been handled, main's effective
\* minimum width is at least its intrinsic min-width minus the space the
\* sidebar occupies, in every state.
C10_NeverNarrower ==
    (handled.type # "none" /\ main)
      => EffectiveMinWidth >= Used(intrinsic, viewport) - Occupied

\* C10 amended: the bound holds in the state a run with both elements
\* present and a length for every measurement ends in; it is restored by
\* each such run, not kept between a change of geometry and the next one.
C10_RestoredByRun ==
    [][(Running /\ Measurable)
        => EffectiveMinWidth' >= Used(intrinsic', viewport') - (width' + left')]_vars

\* A run measured the sidebar part-way through a slide and restored the bound.
C10_Witness ==
    /\ outcome = "applied"
    /\ BothPresent
    /\ left = -120
    /\ mainStyle[3] = Px(left)
    /\ EffectiveMinWidth >= Used(intrinsic, viewport) - Occupied

\* C11: a run writes main's inline min-width and nothing else: the sidebar's
\* geometry and presence, main's presence and stylesheet min-width, the
\* viewport and the registered listener are after every dispatch as before.
C11_WritesOnlyMinWidth ==
    [][Dispatching
        => UNCHANGED <<sidebar, main, listener, intrinsic, width, left,
                       hidden, viewport>>]_vars

\* A run changed main's inline min-width.
C11_Witness ==
    /\ outcome = "applied"
    /\ before # mainStyle
    /\ before # <<>>

\* C12: unit independence.  With the intrinsic min-width a percentage and
\* the sidebar's width and left in px, the override a run applies resolves
\* to what calc() of the same three lengths written in px resolves to, the
\* percentage taken of the containing block by hand.
C12_UnitIndependent ==
    [][(Running /\ Measurable /\ intrinsic.pct # 0)
        => LET byHand == (intrinsic.pct * viewport) \div 100
           IN  /\ outcome' = "applied"
               /\ EffectiveMinWidth'
                    = Resolve(<<Px(byHand), Px(width), Px(left)>>, intrinsic, viewport)
               /\ EffectiveMinWidth' = Max(0, byHand - width - left)]_vars

\* A run applied a percentage minus px with a non-zero left.
C12_Witness ==
    /\ outcome = "applied"
    /\ mainStyle = <<Pct(50), Px(240), Px(-120)>>
    /\ viewport = 800
    /\ EffectiveMinWidth = 280

\* A run with both elements present meets a measurement that is no length.
Unparsable == BothPresent /\ ~(IsLength(intrinsic) /\ ~hidden)

\* C13 as stated: a run that meets a measurement that is no length is a
\* no-op: main's override is after the call as before, and nothing is thrown.
C13_NoOpOnUnparsable ==
    [][(Running /\ Unparsable)
        => /\ mainStyle' = mainStyle
           /\ outcome' # "threw"]_vars

\* C13 amended: such a run throws nothing and applies no expression, but
\* line 7 has cleared the override by then: main's inline min-width is empty
\* after the call whatever it was before.
C13_ClearedOnUnparsable ==
    [][(Running /\ Unparsable)
        => /\ outcome' = "rejected"
           /\ mainStyle' = <<>>]_vars

\* A run found an override and, the sidebar's width being no length, left none.
C13_Witness ==
    /\ outcome = "rejected"
    /\ before # <<>>
    /\ mainStyle = <<>>

\* C14: a measurement that is no length goes unchanged into the composed
\* expression, which the browser rejects; after the run main shows its
\* previous override or its intrinsic min-width, never a third value.
C14_FailsOpen ==
    [][(Running /\ Unparsable)
        => LET expr == Compose(ComputedMinWidth(<<>>, intrinsic),
                               SidebarWidth, SidebarLeft)
           IN  /\ expr = <<intrinsic, SidebarWidth, SidebarLeft>>
               /\ ~ValidCalc(expr)
               /\ mainStyle' \in {mainStyle, <<>>}
               /\ EffectiveMinWidth'
                    \in {EffectiveMinWidth, Max(0, Used(intrinsic, viewport))}]_vars

\* A rejected run left main at its intrinsic min-width, a px length.
C14_Witness ==
    /\ outcome = "rejected"
    /\ hidden
    /\ IsLength(intrinsic)
    /\ mainStyle = <<>>
    /\ EffectiveMinWidth = Used(intrinsic, viewport)
    /\ EffectiveMinWidth > 0

\* Every inline min-width a run can have left on main.
Overrides ==
    {<<>>} \cup {<<i, Px(w), Px(l)>> :
                    i \in Intrinsics \ {Auto}, w \in Widths, l \in Lefts}

\* C15: history independence.  With main in the page, the override a run
\* leaves is the one it would leave had it found any other override on
\* main: it is a function of the geometry at the run alone.
C15_HistoryIndependent ==
    [][(Running /\ main)
        => \A st \in Overrides :
             mainStyle' = updateMinWidth(sidebar, main, st, intrinsic,
                                         SidebarWidth, SidebarLeft).style]_vars

\* A run found an override of another left offset and of another width.
C15_Witness ==
    /\ outcome = "applied"
    /\ before # <<>>
    /\ before[2] # mainStyle[2]
    /\ before[3] # mainStyle[3]
    /\ mainStyle = <<intrinsic, SidebarWidth, SidebarLeft>>

\* C16: what a run measures as main's min-width, with the override cleared
\* first, is the stylesheet's value in every reachable state, and the first
\* operand of every override on main is that value, never an expression an
\* earlier run produced.
C16_MeasuresIntrinsic ==
    /\ ComputedMinWidth(ClearOverride(mainStyle), intrinsic) = intrinsic
    /\ mainStyle # <<>> => mainStyle[1] = intrinsic
    /\ before # <<>> => before[1] = intrinsic

\* A run that found an override left one whose first operand is the
\* stylesheet's min-width.
C16_Witness ==
    /\ outcome = "applied"
    /\ before # <<>>
    /\ before[3] # mainStyle[3]
    /\ mainStyle[1] = intrinsic
    /\ intrinsic = Px(100)

\* The sidebar's geometry as a run measures it.
Geometry == <<sidebar, main, intrinsic, width, left, hidden>>

\* main's override is the expression of the present geometry.
Consistent == mainStyle = <<intrinsic, SidebarWidth, SidebarLeft>>

\* C19: self-correction.  Whatever the order in which events were queued
\* and the geometry changed, a handled trigger leaves an override consistent
\* with the geometry at that moment, also when it found a stale one; and
\* while the geometry stays as it is every further step keeps it consistent.
C19_SelfCorrects ==
    /\ [][(Running /\ Measurable) => Consistent']_vars
    /\ [][(Consistent /\ Measurable /\ Geometry' = Geometry) => Consistent']_vars

\* A resize handler corrected a stale override while a transitionend event
\* queued after it is still waiting.
C19_Witness ==
    /\ handled.type = "resize"
    /\ outcome = "applied"
    /\ before # <<>>
    /\ before # mainStyle
    /\ Consistent
    /\ queue # <<>>
    /\ Head(queue).type = "transitionend"

\* C20: a frame of a sidebar transition (a step that moves the sidebar's
\* left) queues no event and runs no handler: only the end of the
\* transition queues transitionend.
C20_NoRunPerFrame ==
    [][(left' # left) => UNCHANGED <<queue, mainStyle, handled, outcome>>]_vars

\* The sidebar has moved since the last run, part-way through a slide, and
\* no event is queued.
C20_Witness ==
    /\ outcome = "applied"
    /\ mainStyle[3] = Px(0)
    /\ left = -120
    /\ queue = <<>>

\* C17: runs never interleave.  No event is dispatched while a handler is
\* between entering and returning, so no handler finds the override another
\* run has cleared and not yet applied; and every run ends with what the
\* uninterrupted function computes from the override and geometry it began
\* with.
C17_NoInterleaving ==
    /\ [][Dispatching => pc = "idle"]_vars
    /\ [][(pc # "idle" /\ pc' = "idle")
            => [style |-> mainStyle', outcome |-> outcome']
                 = updateMinWidth(sidebar, main, before, intrinsic,
                                  SidebarWidth, SidebarLeft)]_vars

\* A run stands between clearing and applying while the event of another
\* trigger waits in the queue.
C17_Witness ==
    /\ pc = "cleared"
    /\ before # <<>>
    /\ mainStyle = <<>>
    /\ queue # <<>>
    /\ HasHandler(Head(queue))

\* C18: the synchronizer is idle or recomputing (entered, or cleared and
\* not yet applied), and every run that has started returns to idle.
C18_RunsTerminate ==
    /\ [](pc \in {"idle", "entered", "cleared"})
    /\ (pc # "idle") ~> (pc = "idle")

\* A run that threw on a missing sidebar has returned to idle.
C18_Witness ==
    /\ pc = "idle"
    /\ outcome = "threw"
    /\ main
    /\ before # <<>>
    /\ mainStyle = <<>>

\* The queue after this step is the queue before it with one event added at
\* its end.
Enqueued ==
    /\ Len(queue') = Len(queue) + 1
    /\ SubSeq(queue', 1, Len(queue)) = queue

\* C21: no queuing or coalescing of triggers.  Events leave the queue one
\* at a time and in order, however many triggers wait; each dispatched event
\* that has the handler is answered by one run of its own, which with both
\* elements in the page goes through to the assignment of line 11; and
\* nothing but a run writes main's override, so the override in any state is
\* the one the last run left.
C21_OneRunPerEvent ==
    /\ [][(queue' # queue) => (Dispatching \/ Enqueued)]_vars
    /\ [][Running
            => /\ outcome' # "none"
               /\ [style |-> mainStyle', outcome |-> outcome']
                    = updateMinWidth(sidebar, main, mainStyle, intrinsic,
                                     SidebarWidth, SidebarLeft)
               /\ (BothPresent => outcome' \in {"applied", "rejected"})
               /\ handled'.type = Head(queue).type]_vars
    /\ [][(mainStyle' # mainStyle) => Running]_vars

\* Of resize events in quick succession one has been answered by a run that
\* overwrote the override of the run before it, and the next, of the same
\* kind, still waits for its own run.
C21_Witness ==
    /\ handled.type = "resize"
    /\ outcome = "applied"
    /\ before # <<>>
    /\ before # mainStyle
    /\ queue # <<>>
    /\ Head(queue).type = "resize"

\* The load event has not been dispatched yet.
LoadPending == \E i \in 1..Len(queue) : queue[i].type = "load"

\* C22 as stated: main has no override while the load handler has not run,
\* and has one in every state once the first computation has run.
C22_OverrideSinceLoad ==
    /\ LoadPending => mainStyle = <<>>
    /\ handled.type # "none" => mainStyle # <<>>

\* C22 amended: main has no override before the first handler has run, be
\* it load's or that of a resize or transitionend dispatched before load.
\* A run with both elements present and a length for each measurement
\* leaves the override of the geometry it measured, overwriting any earlier
\* one; a run with main present that misses the sidebar or meets a
\* measurement that is no length leaves main without override; a run with
\* main absent and every step that is no run leave the override as it is.
C22_OverrideLifecycle ==
    /\ [](handled.type = "none" => mainStyle = <<>>)
    /\ [][(Running /\ Measurable)
            => mainStyle' = <<intrinsic, Px(width), Px(left)>>]_vars
    /\ [][(Running /\ main /\ ~Measurable) => mainStyle' = <<>>]_vars
    /\ [][(~Running \/ ~main) => mainStyle' = mainStyle]_vars

\* The load handler overwrote the override a run before load had created.
C22_Witness ==
    /\ handled.type = "load"
    /\ outcome = "applied"
    /\ before # <<>>
    /\ before # mainStyle
    /\ mainStyle = <<intrinsic, Px(width), Px(left)>>

\* C23: both elements are looked up at every run.  A run measures the
\* sidebar that is in the page when it runs, also one inserted after the
\* script was evaluated, and throws when there is none then, also when one
\* was there at script evaluation; it writes main's override only when main
\* is in the page at that moment.
C23_ResolvedPerRun ==
    [][Running
        => /\ [style |-> mainStyle', outcome |-> outcome']
                = updateMinWidth(sidebar, main, mainStyle, intrinsic,
                                 SidebarWidth, SidebarLeft)
           /\ (Measurable
                 => /\ outcome' = "applied"
                    /\ mainStyle' = <<intrinsic, Px(width), Px(left)>>)
           /\ (sidebar = 0 => outcome' = "threw")
           /\ (~main => mainStyle' = mainStyle /\ outcome' = "threw")]_vars

\* A run measured a sidebar that was not in the page when line 3 looked for
\* one, and found an override an earlier run had written.
C23_Witness ==
    /\ listener = 0
    /\ sidebar # 0
    /\ outcome = "applied"
    /\ before # <<>>
    /\ mainStyle = <<intrinsic, Px(width), Px(left)>>

\* This step dispatches a transitionend event to the sidebar element that
\* line 3 put the listener on.
TransitionEndDelivered ==
    /\ Dispatching
    /\ Head(queue).type = "transitionend"
    /\ listener # 0
    /\ Head(queue).target = listener

\* C24: an override measured part-way through a sidebar transition, as a
\* resize handler leaves it, is replaced when the transition's transitionend
\* is handled: after that run the override is intrinsic - width - left of
\* the geometry the sidebar has then, and so is the width it resolves to.
C24_SettlesAfterTransition ==
    [][(TransitionEndDelivered /\ Measurable
          /\ mainStyle # <<>> /\ mainStyle[3] # Px(left))
        => /\ outcome' = "applied"
           /\ mainStyle' = <<intrinsic, Px(width), Px(left)>>
           /\ EffectiveMinWidth'
                = Max(0, Used(intrinsic, viewport) - width - left)]_vars

\* The transitionend handler found the override of a half-way left offset
\* and left the one of the sidebar at rest, fully shown.
C24_Witness ==
    /\ handled.type = "transitionend"
    /\ outcome = "applied"
    /\ before # <<>>
    /\ before[3] = Px(-120)
    /\ left = 0
    /\ mainStyle = <<intrinsic, Px(width), Px(0)>>

\* The sidebar lies between fully shown and fully slid off-screen.
BetweenShownAndOff == width >= 0 /\ 0 - width <= left /\ left <= 0

\* C25: for intrinsic min-width m, sidebar width w >= 0 and left l with
\* -w <= l <= 0 the override a run applies has a value v with
\* m - w <= v <= m, and so has the minimum width the browser then enforces.
C25_OverrideBounds ==
    [][(Running /\ Measurable /\ BetweenShownAndOff)
        => LET m == Used(intrinsic, viewport)
               v == Used(CalcValue(mainStyle'), viewport)
           IN  /\ outcome' = "applied"
               /\ m - width <= v
               /\ v <= m
               /\ m - width <= EffectiveMinWidth'
               /\ EffectiveMinWidth' <= m]_vars

\* A run applied an override whose value lies strictly between the bounds:
\* 240px wide, half slid off.
C25_Witness ==
    /\ outcome = "applied"
    /\ width = 240
    /\ left = -120
    /\ mainStyle = <<intrinsic, Px(240), Px(-120)>>
    /\ Used(intrinsic, viewport) - 240 < Used(CalcValue(mainStyle), viewport)
    /\ Used(CalcValue(mainStyle), viewport) < Used(intrinsic, viewport)

\* C26: with no sidebar in the page when the script is evaluated (line 3
\* found none, so no listener exists) a dispatched load or resize event
\* still runs updateMinWidth and no other event does, transitionend to a
\* sidebar inserted later included; and the listener is never installed
\* afterwards: what line 3 registered or failed to register stays.
C26_LoadResizeInstalledAlone ==
    /\ [][listener' = listener]_vars
    /\ [][(Dispatching /\ listener = 0)
            => ((outcome' # "none")
                  <=> Head(queue).type \in {"load", "resize"})]_vars
    /\ [][(Dispatching /\ listener = 0 /\ Measurable
             /\ Head(queue).type \in {"load", "resize"})
            => /\ outcome' = "applied"
               /\ mainStyle' = <<intrinsic, Px(width), Px(left)>>]_vars

\* A sidebar inserted after the script ran has ended a transition: its
\* transitionend event started no run and left in place the override an
\* earlier load or resize handler had applied.
C26_Witness ==
    /\ listener = 0
    /\ sidebar # 0
    /\ handled.type = "transitionend"
    /\ outcome = "none"
    /\ mainStyle # <<>>
    /\ before = mainStyle

\* main's override is the one a run on the present page would leave.
Settled ==
    mainStyle = updateMinWidth(sidebar, TRUE, <<>>, intrinsic,
                               SidebarWidth, SidebarLeft).style

\* C27 as stated, on a page with both elements, a length for every
\* measurement and an override in place: every transitionend delivered to
\* the sidebar runs updateMinWidth, and a run started by the end of a
\* transition of a property other than width and left leaves the override
\* as it was.
C27_OtherTransitionKeepsOverride ==
    /\ [][TransitionEndDelivered => outcome' # "none"]_vars
    /\ [][(TransitionEndDelivered /\ handled'.prop = "opacity"
             /\ Measurable /\ mainStyle # <<>>)
            => mainStyle' = mainStyle]_vars

\* C27 amended: every transitionend delivered to the sidebar runs
\* updateMinWidth whatever its propertyName.  The run leaves the override
\* as it was iff the override was already the one of the present page (or
\* main is absent); when width, left or the presence of an element has
\* changed since the last run, as during a slide that is still going on,
\* the run replaces the override by the one of the present page, also when
\* the transition that ended changed neither width nor left.
C27_UnfilteredKeepsSettled ==
    /\ [][TransitionEndDelivered
            => /\ outcome' # "none"
               /\ [style |-> mainStyle', outcome |-> outcome']
                    = updateMinWidth(sidebar, main, mainStyle, intrinsic,
                                     SidebarWidth, SidebarLeft)]_vars
    /\ [][(TransitionEndDelivered /\ (Settled \/ ~main))
            => mainStyle' = mainStyle]_vars
    /\ [][(TransitionEndDelivered /\ main /\ ~Settled)
            => /\ mainStyle' # mainStyle
               /\ Settled']_vars

\* The end of an opacity transition ran updateMinWidth, which found the
\* override of the present geometry and left the same.
C27_Witness ==
    /\ handled.type = "transitionend"
    /\ handled.prop = "opacity"
    /\ outcome = "applied"
    /\ before # <<>>
    /\ before = mainStyle
    /\ Consistent

====
